---- MODULE Spec2Model ----
(***************************************************************************)
(* Task lifecycle engine of Tasker: submission (run_task), the Celery      *)
(* entry points (sum_numbers, query_chatgpt, fetch_weather) driving        *)
(* BaseTask.run, the retry policy, the Task table and the Redis-backed     *)
(* output cache read by get_task_output.                                   *)
(***************************************************************************)
EXTENDS Integers, Sequences, FiniteSets, Bags, TLC

\* ------------------------------------------------------------------------
\* Bounds of the model
\* ------------------------------------------------------------------------
MaxTasks == 1
MaxTime == 1
MaxRedeliver == 1
MaxDeletes == 1
MaxResubmits == 1

\* ------------------------------------------------------------------------
\* Program constants
\* ------------------------------------------------------------------------
max_retries == 3
max_prompt_length == 10000
max_city_length == 100

\* ------------------------------------------------------------------------
\* Values.  A number is k * 10^15 + r with |r| far below 10^15, so that the
\* comparison with the ceiling 1e15 and the addition are exact.  A string is
\* a sequence of runs [c |-> character, n |-> repetitions].
\* ------------------------------------------------------------------------
Null == [t |-> "null"]
Num(k, r) == [t |-> "num", k |-> k, r |-> r]
NaN == [t |-> "nan"]
Str(runs) == [t |-> "str", runs |-> runs]
Lit(s) == [t |-> "lit", s |-> s]
Time(n) == [t |-> "datetime", n |-> n]

max_number_value == Num(1, 0)

IsNumber(v) == v.t \in {"num", "nan"}
IsInt(v) == v.t = "num"
IsStr(v) == v.t = "str"

\* v > n and v <= n for a small integer n (False for NaN)
Greater(v, n) == v.t = "num" /\ (v.k > 0 \/ (v.k = 0 /\ v.r > n))
AtMost(v, n) == v.t = "num" /\ (v.k < 0 \/ (v.k = 0 /\ v.r <= n))

\* a ceiling that excludes the value max_number_value itself
ExceedsMax_inclusive(v) ==
    /\ v.t = "num"
    /\ \/ v.k >= max_number_value.k
       \/ v.k <= 0 - max_number_value.k

\* abs(v) > settings.max_number_value; every comparison with NaN is False
ExceedsMax(v) ==
    /\ v.t = "num"
    /\ \/ v.k > max_number_value.k
       \/ v.k < 0 - max_number_value.k
       \/ v.k = max_number_value.k /\ v.r > max_number_value.r
       \/ v.k = 0 - max_number_value.k /\ v.r < 0 - max_number_value.r

\* math.isnan(v) or math.isinf(v)
NotFinite(v) == v.t = "nan"

Add(x, y) == Num(x.k + y.k, x.r + y.r)

Whitespace == {" ", "\t"}
WordChars == {"a", "L", "x"}
CityChars == WordChars \cup Whitespace \cup {"-", ".", ",", "'"}

RECURSIVE StrLen(_)
StrLen(runs) == IF runs = <<>> THEN 0 ELSE Head(runs).n + StrLen(Tail(runs))

RECURSIVE LStrip(_)
LStrip(runs) ==
    IF runs = <<>> THEN <<>>
    ELSE IF Head(runs).c \in Whitespace THEN LStrip(Tail(runs))
    ELSE runs

RECURSIVE RStrip(_)
RStrip(runs) ==
    IF runs = <<>> THEN <<>>
    ELSE IF runs[Len(runs)].c \in Whitespace
         THEN RStrip(SubSeq(runs, 1, Len(runs) - 1))
    ELSE runs

\* a strip() that removes nothing
strip_nothing(runs) == runs

\* str.strip()
strip(runs) == RStrip(LStrip(runs))

\* re.match(r"^[\w\s\-\.,\']+$", city, re.UNICODE)
CityMatches(runs) ==
    /\ runs # <<>>
    /\ \A i \in 1..Len(runs) : runs[i].c \in CityChars

\* ------------------------------------------------------------------------
\* Validator (routes._validate_task_parameters): "ok" or the reason of the
\* ValueError it raises.
\* ------------------------------------------------------------------------
TaskName == {"sum", "chatgpt", "weather"}
Units == {"metric", "imperial", "kelvin"}

\* a validator without the magnitude ceiling
validate_sum_without_ceiling(p) ==
    IF "a" \notin DOMAIN p THEN "Parameter 'a' is required for sum task"
    ELSE IF "b" \notin DOMAIN p THEN "Parameter 'b' is required for sum task"
    ELSE IF ~IsNumber(p["a"]) THEN "Parameter 'a' must be a number"
    ELSE IF ~IsNumber(p["b"]) THEN "Parameter 'b' must be a number"
    ELSE IF NotFinite(p["a"]) THEN "Parameter 'a' must be a finite number"
    ELSE IF NotFinite(p["b"]) THEN "Parameter 'b' must be a finite number"
    ELSE "ok"

validate_sum(p) ==
    IF "a" \notin DOMAIN p THEN "Parameter 'a' is required for sum task"
    ELSE IF "b" \notin DOMAIN p THEN "Parameter 'b' is required for sum task"
    ELSE IF ~IsNumber(p["a"]) THEN "Parameter 'a' must be a number"
    ELSE IF ~IsNumber(p["b"]) THEN "Parameter 'b' must be a number"
    ELSE IF ExceedsMax(p["a"]) THEN "Parameter 'a' exceeds maximum allowed value"
    ELSE IF ExceedsMax(p["b"]) THEN "Parameter 'b' exceeds maximum allowed value"
    ELSE IF NotFinite(p["a"]) THEN "Parameter 'a' must be a finite number"
    ELSE IF NotFinite(p["b"]) THEN "Parameter 'b' must be a finite number"
    ELSE "ok"

validate_chatgpt(p) ==
    IF "prompt" \notin DOMAIN p THEN "Parameter 'prompt' is required for chatgpt task"
    ELSE IF ~IsStr(p["prompt"]) THEN "Parameter 'prompt' must be a string"
    ELSE IF strip(p["prompt"].runs) = <<>> THEN "Parameter 'prompt' must be a non-empty string"
    ELSE IF StrLen(strip(p["prompt"].runs)) > max_prompt_length
         THEN "Parameter 'prompt' exceeds maximum length"
    ELSE IF "max_tokens" \in DOMAIN p
            /\ (~IsInt(p["max_tokens"]) \/ AtMost(p["max_tokens"], 0))
         THEN "Parameter 'max_tokens' must be a positive integer"
    ELSE IF "max_tokens" \in DOMAIN p /\ Greater(p["max_tokens"], 4000)
         THEN "Parameter 'max_tokens' cannot exceed 4000"
    ELSE IF "temperature" \in DOMAIN p /\ ~IsNumber(p["temperature"])
         THEN "Parameter 'temperature' must be a number"
    ELSE IF "temperature" \in DOMAIN p
            /\ ~(~AtMost(p["temperature"], -1) /\ p["temperature"].t = "num"
                 /\ AtMost(p["temperature"], 2))
         THEN "Parameter 'temperature' must be between 0 and 2"
    ELSE "ok"

validate_weather(p) ==
    IF "city" \notin DOMAIN p THEN "Parameter 'city' is required for weather task"
    ELSE IF ~IsStr(p["city"]) THEN "Parameter 'city' must be a string"
    ELSE IF strip(p["city"].runs) = <<>> THEN "Parameter 'city' must be a non-empty string"
    ELSE IF StrLen(strip(p["city"].runs)) > max_city_length
         THEN "Parameter 'city' exceeds maximum length"
    ELSE IF ~CityMatches(strip(p["city"].runs)) THEN "Parameter 'city' contains invalid characters"
    ELSE IF "units" \in DOMAIN p /\ p["units"] \notin {Lit(u) : u \in Units}
         THEN "Parameter 'units' must be 'metric', 'imperial', or 'kelvin'"
    ELSE "ok"

validate_task_parameters(task_name, p) ==
    IF task_name = "sum" THEN validate_sum(p)
    ELSE IF task_name = "chatgpt" THEN validate_chatgpt(p)
    ELSE IF task_name = "weather" THEN validate_weather(p)
    ELSE "ok"

\* ------------------------------------------------------------------------
\* Task bodies.  An outcome is what execute() does: return a result or raise
\* an exception of class cls with message msg.  `ext` is the answer of the
\* downstream service during this execution.
\* ------------------------------------------------------------------------
Return(v) == [ok |-> TRUE, val |-> v, cls |-> "none", msg |-> Null]
Raise(cls, m) == [ok |-> FALSE, val |-> Null, cls |-> cls, msg |-> Lit(m)]

Downstream(task_name) ==
    IF task_name = "sum" THEN {"none"}
    ELSE IF task_name = "weather" THEN {"ok", "ok2", "not_found", "timeout", "geo_error"}
    ELSE {"ok", "timeout", "auth_error", "no_key"}

Param(p, key, default) == IF key \in DOMAIN p THEN p[key] ELSE default

SumTask_execute(p) ==
    IF ~IsNumber(p["a"]) THEN Raise("ValueError", "Parameter 'a' must be numeric")
    ELSE IF ~IsNumber(p["b"]) THEN Raise("ValueError", "Parameter 'b' must be numeric")
    ELSE Return([t |-> "dict", operation |-> "sum", a |-> p["a"], b |-> p["b"],
                 result |-> Add(p["a"], p["b"])])

WeatherTask_execute(p, ext) ==
    IF ~IsStr(p["city"]) \/ p["city"].runs = <<>>
    THEN Raise("ValueError", "Parameter 'city' must be a non-empty string")
    ELSE IF Param(p, "units", Lit("metric")) \notin {Lit(u) : u \in Units}
    THEN Raise("ValueError", "Parameter 'units' must be 'metric', 'imperial', or 'kelvin'")
    ELSE IF ext = "geo_error" THEN Raise("RuntimeError", "Open-Meteo Geocoding API error")
    ELSE IF ext = "not_found" THEN Raise("ValueError", "City not found")
    ELSE IF ext = "timeout" THEN Raise("RuntimeError", "Open-Meteo API request timed out")
    ELSE Return([t |-> "dict", city |-> p["city"],
                 units |-> Param(p, "units", Lit("metric")), weather |-> ext])

ChatGPTTask_execute(p, ext) ==
    IF ~IsStr(p["prompt"]) \/ p["prompt"].runs = <<>>
    THEN Raise("ValueError", "Parameter 'prompt' must be a non-empty string")
    ELSE IF StrLen(p["prompt"].runs) > max_prompt_length
    THEN Raise("ValueError", "Prompt exceeds maximum length")
    ELSE IF ext = "no_key" THEN Raise("ValueError", "OpenAI API key is not configured")
    ELSE IF ext = "timeout" THEN Raise("OpenAIError", "Request timed out.")
    ELSE IF ext = "auth_error" THEN Raise("OpenAIError", "Incorrect API key provided")
    ELSE Return([t |-> "dict", prompt |-> p["prompt"],
                 model |-> Param(p, "model", Lit("gpt-3.5-turbo")), response |-> ext])

execute(task_name, p, ext) ==
    IF task_name = "sum" THEN SumTask_execute(p)
    ELSE IF task_name = "weather" THEN WeatherTask_execute(p, ext)
    ELSE ChatGPTTask_execute(p, ext)

\* ------------------------------------------------------------------------
\* Requests offered to POST /run-task
\* ------------------------------------------------------------------------
S(c) == Str(<<[c |-> c, n |-> 1]>>)

AcceptedRequests ==
    { [task_name |-> "sum", task_parameters |-> [a |-> Num(0, 5), b |-> Num(0, 3)]],
      [task_name |-> "weather", task_parameters |-> [city |-> S("L")]],
      [task_name |-> "chatgpt", task_parameters |-> [prompt |-> S("a")]] }

\* invalid requests, each with the detail the handler must answer
Rejections ==
    { [req |-> [task_name |-> "invalid_task", task_parameters |-> [x |-> Null]],
       code |-> 422, detail |-> "Input should be 'sum', 'chatgpt' or 'weather'"],
      [req |-> [task_name |-> "sum", task_parameters |-> [b |-> Num(0, 3)]],
       code |-> 400, detail |-> "Parameter 'a' is required for sum task"],
      [req |-> [task_name |-> "sum", task_parameters |-> [a |-> S("a"), b |-> Num(0, 3)]],
       code |-> 400, detail |-> "Parameter 'a' must be a number"],
      [req |-> [task_name |-> "sum", task_parameters |-> [a |-> Num(10, 0), b |-> Num(0, 3)]],
       code |-> 400, detail |-> "Parameter 'a' exceeds maximum allowed value"],
      [req |-> [task_name |-> "sum", task_parameters |-> [a |-> Num(0, 5), b |-> NaN]],
       code |-> 400, detail |-> "Parameter 'b' must be a finite number"],
      [req |-> [task_name |-> "chatgpt", task_parameters |-> [prompt |-> S(" ")]],
       code |-> 400, detail |-> "Parameter 'prompt' must be a non-empty string"],
      [req |-> [task_name |-> "weather", task_parameters |-> [city |-> S(";")]],
       code |-> 400, detail |-> "Parameter 'city' contains invalid characters"],
      [req |-> [task_name |-> "weather",
                task_parameters |-> [city |-> S("L"), units |-> Lit("celsius")]],
       code |-> 400,
       detail |-> "Parameter 'units' must be 'metric', 'imperial', or 'kelvin'"] }

\* numbers around the ceiling 1e15: small ones, the ceiling itself with either
\* sign, one more than the ceiling, 1e16, and NaN
SumValues ==
    {Num(0, 5), Num(0, 3), Num(0, -5), Num(1, 0), Num(-1, 0), Num(1, 1), Num(-1, -1),
     Num(10, 0), NaN}
SumRequests ==
    {[task_name |-> "sum", task_parameters |-> [a |-> x, b |-> y]] : x, y \in SumValues}

\* texts at the edges of the checks: empty, blank, padded, and of a length at,
\* around and over a ceiling n
R(c, n) == [c |-> c, n |-> n]
BlankTexts == {Str(<<>>), Str(<<R(" ", 1)>>), Str(<<R(" ", 3)>>), Str(<<R("\t", 1)>>),
               Str(<<R(" ", 1), R("\t", 1)>>)}
EdgeTexts(c, n) ==
    BlankTexts \cup
    {Str(<<R(c, 1)>>), Str(<<R(" ", 1), R(c, 1), R("\t", 1)>>),
     Str(<<R(c, n)>>), Str(<<R(" ", 1), R(c, n)>>), Str(<<R(c, n + 1)>>)}

\* parameter maps at the edges of what the validator looks at: texts as above,
\* the optional parameters, and keys the validator does not look at
EdgeRequests ==
    {[task_name |-> "chatgpt", task_parameters |-> [prompt |-> x]] :
        x \in EdgeTexts("a", max_prompt_length)}
    \cup {[task_name |-> "weather", task_parameters |-> [city |-> x]] :
             x \in EdgeTexts("L", max_city_length)}
    \cup {[task_name |-> "weather",
           task_parameters |-> [city |-> S("L"), units |-> Lit("kelvin")]],
          [task_name |-> "chatgpt",
           task_parameters |-> [prompt |-> S("a"), model |-> Lit("gpt-4"),
                                max_tokens |-> Num(0, 4000), temperature |-> Num(0, 2)]],
          [task_name |-> "sum",
           task_parameters |-> [a |-> Num(0, 5), b |-> Num(0, 3)]],
          [task_name |-> "sum",
           task_parameters |-> [a |-> Num(0, 5), b |-> Num(0, 3), c |-> Num(0, 1)]],
          [task_name |-> "sum",
           task_parameters |-> [a |-> Num(0, 5), b |-> Num(0, 3), task_uuid |-> S("x")]]}

RejectedRequests == {r.req : r \in Rejections}

Requests == AcceptedRequests \cup RejectedRequests

\* ------------------------------------------------------------------------
\* State
\* ------------------------------------------------------------------------
VARIABLES
    store,                  \* the tasks table: id -> row, or NoRow
    nextId,                 \* the next fresh uuid4
    submitting,             \* run_task handlers between commit and delay()
    reply,                  \* what the handler or call of the step just taken returned
    queue,                  \* bag of messages waiting in the broker
    inflight,               \* bag of messages a worker is executing (unacked)
    now,                    \* datetime.utcnow()
    tasks_by_status,        \* gauge, per status
    tasks_submitted_counter,\* counter
    duration_obs,           \* task_execution_duration observations, per task
    attempts,               \* body executions, per task
    retries_issued,         \* self.retry() re-deliveries, per task
    last_outcome,           \* outcome of the latest finished body, per task
    redelivered,            \* broker re-deliveries after a visibility timeout
    deleted,                \* rows deleted by something outside this program
    redis_client,           \* cache_service._redis is set
    redis                   \* the Redis database: backend key -> text, or NoEntry

cacheVars == <<redis_client, redis>>

vars == <<store, nextId, submitting, reply, queue, inflight, now, tasks_by_status,
          tasks_submitted_counter, duration_obs, attempts, retries_issued,
          last_outcome, redelivered, deleted, cacheVars>>

\* uuid4 values the model can hand out: MaxTasks submissions and MaxResubmits
\* repetitions of an earlier submission
TaskIds == 1..(MaxTasks + MaxResubmits)
Statuses == {"pending", "running", "completed", "failed"}
NoRow == [t |-> "norow"]
NoReply == [code |-> 0]
NoEntry == [t |-> "nokey"]

\* CacheService._make_key: keys are sequences of text pieces
make_key(key) == <<"tasker:">> \o key
\* one key for the outputs of all tasks
task_output_key_shared(task_uuid) == <<"task_output:", "latest">>

\* f"task_output:{task_uuid}"
task_output_key(task_uuid) == <<"task_output:", ToString(task_uuid)>>
\* a key of some other consumer of the cache
OtherKeys == {<<"test_key">>}
CacheKeys == {task_output_key(i) : i \in TaskIds} \cup OtherKeys
RedisKeys == {make_key(k) : k \in CacheKeys}

BagAdd(B, e) == B (+) SetToBag({e})
BagRemove(B, e) == B (-) SetToBag({e})

Message(id, task_name, kwargs, retries) ==
    [id |-> id, task_name |-> task_name, kwargs |-> kwargs, retries |-> retries]

Init ==
    /\ store = [i \in TaskIds |-> NoRow]
    /\ nextId = 1
    /\ submitting = {}
    /\ reply = NoReply
    /\ queue = EmptyBag
    /\ inflight = EmptyBag
    /\ now = 0
    /\ tasks_by_status = [s \in Statuses |-> 0]
    /\ tasks_submitted_counter = 0
    /\ duration_obs = [i \in TaskIds |-> 0]
    /\ attempts = [i \in TaskIds |-> 0]
    /\ retries_issued = [i \in TaskIds |-> 0]
    /\ last_outcome = [i \in TaskIds |-> Null]
    /\ redelivered = 0
    /\ deleted = {}
    /\ redis_client = FALSE
    /\ redis = [k \in RedisKeys |-> NoEntry]

\* gauge.labels(status=down).dec(); gauge.labels(status=up).inc()
Move(g, down, up) == [g EXCEPT ![down] = @ - 1, ![up] = @ + 1]

\* ------------------------------------------------------------------------
\* POST /run-task (routes.run_task)
\* ------------------------------------------------------------------------
\* what the handler answers before it creates anything: a rejection, or "ok"
run_task_check(req) ==
    IF req.task_name \notin TaskName
    THEN [code |-> 422, detail |-> "Input should be 'sum', 'chatgpt' or 'weather'"]
    ELSE IF validate_task_parameters(req.task_name, req.task_parameters) # "ok"
    THEN [code |-> 400,
          detail |-> validate_task_parameters(req.task_name, req.task_parameters)]
    ELSE [code |-> 200, detail |-> "ok"]

\* a handler that hands the message to the broker before the row is committed
run_task_enqueue_first(req) ==
    IF run_task_check(req).code # 200
    THEN /\ reply' = run_task_check(req)
         /\ UNCHANGED <<store, nextId, submitting, queue, inflight, now, tasks_by_status,
                        tasks_submitted_counter, duration_obs, attempts, retries_issued,
                        last_outcome, redelivered, deleted, cacheVars>>
    ELSE /\ nextId \in TaskIds
         /\ queue' = BagAdd(queue, [id |-> nextId, task_name |-> req.task_name,
                                    kwargs |-> req.task_parameters, retries |-> 0])
         /\ nextId' = nextId + 1
         /\ submitting' = submitting \cup {[id |-> nextId, req |-> req]}
         /\ reply' = NoReply
         /\ UNCHANGED <<store, inflight, now, tasks_by_status, tasks_submitted_counter,
                        duration_obs, attempts, retries_issued, last_outcome, redelivered,
                        deleted, cacheVars>>

\* a handler that answers a repeated request with the id of the earlier row
run_task_deduplicating(req) ==
    IF run_task_check(req).code # 200
    THEN /\ reply' = run_task_check(req)
         /\ UNCHANGED <<store, nextId, submitting, queue, inflight, now, tasks_by_status,
                        tasks_submitted_counter, duration_obs, attempts, retries_issued,
                        last_outcome, redelivered, deleted, cacheVars>>
    ELSE IF \E i \in TaskIds : store[i] # NoRow /\ store[i].task_name = req.task_name
                                /\ store[i].task_parameters = req.task_parameters
    THEN /\ reply' = [code |-> 202,
                      task_uuid |-> CHOOSE i \in TaskIds :
                          store[i] # NoRow /\ store[i].task_name = req.task_name
                          /\ store[i].task_parameters = req.task_parameters]
         /\ UNCHANGED <<store, nextId, submitting, queue, inflight, now, tasks_by_status,
                        tasks_submitted_counter, duration_obs, attempts, retries_issued,
                        last_outcome, redelivered, deleted, cacheVars>>
    ELSE /\ nextId \in TaskIds
         /\ store' = [store EXCEPT ![nextId] =
                        [t |-> "task", task_name |-> req.task_name,
                         task_parameters |-> req.task_parameters,
                         status |-> "pending", result |-> Null, error_message |-> Null,
                         created_at |-> Time(now), completed_at |-> Null]]
         /\ nextId' = nextId + 1
         /\ tasks_submitted_counter' = tasks_submitted_counter + 1
         /\ tasks_by_status' = [tasks_by_status EXCEPT !["pending"] = @ + 1]
         /\ submitting' = submitting \cup {[id |-> nextId, req |-> req]}
         /\ reply' = NoReply
         /\ UNCHANGED <<queue, inflight, now, duration_obs, attempts, retries_issued,
                        last_outcome, redelivered, deleted, cacheVars>>

\* validation, then the row is committed and the metrics are updated
run_task(req) ==
    IF run_task_check(req).code # 200
    THEN /\ reply' = run_task_check(req)
         /\ UNCHANGED <<store, nextId, submitting, queue, inflight, now, tasks_by_status,
                        tasks_submitted_counter, duration_obs, attempts, retries_issued,
                        last_outcome, redelivered, deleted, cacheVars>>
    ELSE /\ nextId \in TaskIds
         /\ store' = [store EXCEPT ![nextId] =
                        [t |-> "task", task_name |-> req.task_name,
                         task_parameters |-> req.task_parameters,
                         status |-> "pending", result |-> Null, error_message |-> Null,
                         created_at |-> Time(now), completed_at |-> Null]]
         /\ nextId' = nextId + 1
         /\ tasks_submitted_counter' = tasks_submitted_counter + 1
         /\ tasks_by_status' = [tasks_by_status EXCEPT !["pending"] = @ + 1]
         /\ submitting' = submitting \cup {[id |-> nextId, req |-> req]}
         /\ reply' = NoReply
         /\ UNCHANGED <<queue, inflight, now, duration_obs, attempts, retries_issued,
                        last_outcome, redelivered, deleted, cacheVars>>

\* a handler that deletes the row again when the broker refuses the message
delay_with_rollback(h, broker_up) ==
    /\ h \in submitting
    /\ submitting' = submitting \ {h}
    /\ IF broker_up
       THEN /\ queue' = BagAdd(queue, Message(h.id, h.req.task_name, h.req.task_parameters, 0))
            /\ reply' = [code |-> 202, task_uuid |-> h.id]
            /\ store' = store
       ELSE /\ queue' = queue
            /\ reply' = [code |-> 500, detail |-> "Internal Server Error"]
            /\ store' = [store EXCEPT ![h.id] = NoRow]
    /\ UNCHANGED <<nextId, inflight, now, tasks_by_status, tasks_submitted_counter,
                   duration_obs, attempts, retries_issued,
                   last_outcome, redelivered, deleted, cacheVars>>

\* the keyword parameters of the entry points (after self and task_uuid): those
\* without a default and all of them
EntryRequired(task_name) ==
    IF task_name = "sum" THEN {"a", "b"}
    ELSE IF task_name = "chatgpt" THEN {"prompt"}
    ELSE {"city"}
EntryParams(task_name) ==
    IF task_name = "sum" THEN {"a", "b"}
    ELSE IF task_name = "chatgpt" THEN {"prompt", "model", "max_tokens", "temperature"}
    ELSE {"city", "units"}

\* the call entry(task_uuid, **kwargs) binds: no entry point takes **kwargs, and
\* task_uuid is already given positionally
binds(task_name, kwargs) ==
    /\ EntryRequired(task_name) \subseteq DOMAIN kwargs
    /\ DOMAIN kwargs \subseteq EntryParams(task_name)

\* celery_task.delay(str(task.id), **request.task_parameters), then the response;
\* when the broker refuses the message, or the arguments do not bind to the
\* entry point's signature (TypeError), the exception leaves the handler
delay(h, broker_up) ==
    /\ h \in submitting
    /\ submitting' = submitting \ {h}
    /\ IF broker_up /\ binds(h.req.task_name, h.req.task_parameters)
       THEN /\ queue' = BagAdd(queue, Message(h.id, h.req.task_name, h.req.task_parameters, 0))
            /\ reply' = [code |-> 202, task_uuid |-> h.id]
       ELSE /\ queue' = queue
            /\ reply' = [code |-> 500, detail |-> "Internal Server Error"]
    /\ UNCHANGED <<store, nextId, inflight, now, tasks_by_status, tasks_submitted_counter,
                   duration_obs, attempts, retries_issued,
                   last_outcome, redelivered, deleted, cacheVars>>

\* ------------------------------------------------------------------------
\* Worker: the Celery entry point runs BaseTask.run
\* ------------------------------------------------------------------------
\* a run() that inserts a row when it finds none
run_start_upserting(m) ==
    /\ BagIn(m, queue)
    /\ queue' = BagRemove(queue, m)
    /\ inflight' = BagAdd(inflight, m)
    /\ store' = [store EXCEPT ![m.id] =
                   IF @ # NoRow THEN [@ EXCEPT !.status = "running"]
                   ELSE [t |-> "task", task_name |-> m.task_name,
                         task_parameters |-> m.kwargs, status |-> "running",
                         result |-> Null, error_message |-> Null,
                         created_at |-> Time(now), completed_at |-> Null]]
    /\ tasks_by_status' = Move(tasks_by_status, "pending", "running")
    /\ attempts' = [attempts EXCEPT ![m.id] = @ + 1]
    /\ reply' = NoReply
    /\ UNCHANGED <<nextId, submitting, now, tasks_submitted_counter, duration_obs,
                   retries_issued, last_outcome, redelivered, deleted, cacheVars>>

\* a run() that starts the body without having committed status = running
run_start_uncommitted(m) ==
    /\ BagIn(m, queue)
    /\ queue' = BagRemove(queue, m)
    /\ inflight' = BagAdd(inflight, m)
    /\ attempts' = [attempts EXCEPT ![m.id] = @ + 1]
    /\ reply' = NoReply
    /\ UNCHANGED <<store, tasks_by_status, nextId, submitting, now, tasks_submitted_counter,
                   duration_obs, retries_issued, last_outcome, redelivered, deleted,
                   cacheVars>>

\* a run() that takes a lease: a message whose row is already running is dropped
run_start_leased(m) ==
    /\ BagIn(m, queue)
    /\ queue' = BagRemove(queue, m)
    /\ reply' = NoReply
    /\ IF store[m.id] # NoRow /\ store[m.id].status = "running"
       THEN UNCHANGED <<store, tasks_by_status, inflight, attempts>>
       ELSE /\ inflight' = BagAdd(inflight, m)
            /\ attempts' = [attempts EXCEPT ![m.id] = @ + 1]
            /\ IF store[m.id] # NoRow
               THEN /\ store' = [store EXCEPT ![m.id].status = "running"]
                    /\ tasks_by_status' = Move(tasks_by_status, "pending", "running")
               ELSE UNCHANGED <<store, tasks_by_status>>
    /\ UNCHANGED <<nextId, submitting, now, tasks_submitted_counter, duration_obs,
                   retries_issued, last_outcome, redelivered, deleted, cacheVars>>

\* a worker receives the message; run() commits status = running (when the row
\* exists) and the body starts
run_start(m) ==
    /\ BagIn(m, queue)
    /\ queue' = BagRemove(queue, m)
    /\ inflight' = BagAdd(inflight, m)
    /\ IF store[m.id] # NoRow
       THEN /\ store' = [store EXCEPT ![m.id].status = "running"]
            /\ tasks_by_status' = Move(tasks_by_status, "pending", "running")
       ELSE UNCHANGED <<store, tasks_by_status>>
    /\ attempts' = [attempts EXCEPT ![m.id] = @ + 1]
    /\ reply' = NoReply
    /\ UNCHANGED <<nextId, submitting, now, tasks_submitted_counter, duration_obs,
                   retries_issued, last_outcome, redelivered, deleted, cacheVars>>

\* a success path that never writes the row
Completed_never_written(row, out, time) == row

\* a success write that stamps created_at as well
Completed_restamping(row, out, time) ==
    [row EXCEPT !.status = "completed", !.result = out.val, !.completed_at = Time(time),
                !.created_at = Time(time)]

\* a success write that forgets the result
Completed_without_result(row, out, time) ==
    [row EXCEPT !.status = "completed", !.completed_at = Time(time)]

\* the row after the body returned / raised (run(), lines 70-77 and 96-102)
Completed(row, out, time) ==
    [row EXCEPT !.status = "completed", !.result = out.val, !.completed_at = Time(time)]

\* a failure path that never writes the row
Failed_never_written(row, out, time) == row

Failed(row, out, time) ==
    [row EXCEPT !.status = "failed", !.error_message = out.msg, !.completed_at = Time(time)]

\* a retry bound that is off by one
Retried_once_more(m, out) == ~out.ok /\ out.cls # "ValueError" /\ m.retries <= max_retries

\* an entry point that retries a ValueError too
Retried_any_error(m, out) == ~out.ok /\ m.retries + 1 <= max_retries

\* self.retry(exc=exc) re-delivers unless request.retries + 1 > max_retries;
\* a ValueError is re-raised without retry
Retried(m, out) == ~out.ok /\ out.cls # "ValueError" /\ m.retries + 1 <= max_retries

\* an entry point whose retry is delivered while the failing attempt is still
\* held by its worker
run_finish_retrying_early(m, ext) ==
    /\ BagIn(m, inflight)
    /\ ext \in Downstream(m.task_name)
    /\ LET out == execute(m.task_name, m.kwargs, ext) IN
       /\ IF store[m.id] # NoRow
          THEN /\ store' = [store EXCEPT ![m.id] =
                              IF out.ok THEN Completed(@, out, now) ELSE Failed(@, out, now)]
               /\ tasks_by_status' =
                      Move(tasks_by_status, "running", IF out.ok THEN "completed" ELSE "failed")
          ELSE UNCHANGED <<store, tasks_by_status>>
       /\ duration_obs' = [duration_obs EXCEPT ![m.id] = @ + 1]
       /\ last_outcome' = [last_outcome EXCEPT ![m.id] = out]
       /\ IF Retried(m, out)
          THEN /\ queue' = BagAdd(queue, [m EXCEPT !.retries = @ + 1])
               /\ retries_issued' = [retries_issued EXCEPT ![m.id] = @ + 1]
               /\ inflight' = inflight
          ELSE /\ UNCHANGED <<queue, retries_issued>>
               /\ inflight' = BagRemove(inflight, m)
    /\ reply' = NoReply
    /\ UNCHANGED <<nextId, submitting, now, tasks_submitted_counter, attempts,
                   redelivered, deleted, cacheVars>>

\* a run() that observes the duration of successful attempts only
run_finish_observing_success(m, ext) ==
    /\ BagIn(m, inflight)
    /\ ext \in Downstream(m.task_name)
    /\ LET out == execute(m.task_name, m.kwargs, ext) IN
       /\ IF store[m.id] # NoRow
          THEN /\ store' = [store EXCEPT ![m.id] =
                              IF out.ok THEN Completed(@, out, now) ELSE Failed(@, out, now)]
               /\ tasks_by_status' =
                      Move(tasks_by_status, "running", IF out.ok THEN "completed" ELSE "failed")
          ELSE UNCHANGED <<store, tasks_by_status>>
       /\ duration_obs' = [duration_obs EXCEPT ![m.id] = IF out.ok THEN @ + 1 ELSE @]
       /\ last_outcome' = [last_outcome EXCEPT ![m.id] = out]
       /\ IF Retried(m, out)
          THEN /\ queue' = BagAdd(queue, [m EXCEPT !.retries = @ + 1])
               /\ retries_issued' = [retries_issued EXCEPT ![m.id] = @ + 1]
          ELSE UNCHANGED <<queue, retries_issued>>
    /\ inflight' = BagRemove(inflight, m)
    /\ reply' = NoReply
    /\ UNCHANGED <<nextId, submitting, now, tasks_submitted_counter, attempts,
                   redelivered, deleted, cacheVars>>

\* the body ends with outcome execute(...); run() records it and observes the
\* duration; the entry point returns, re-raises or retries; the message is acked
run_finish(m, ext) ==
    /\ BagIn(m, inflight)
    /\ ext \in Downstream(m.task_name)
    /\ LET out == execute(m.task_name, m.kwargs, ext) IN
       /\ IF store[m.id] # NoRow
          THEN /\ store' = [store EXCEPT ![m.id] =
                              IF out.ok THEN Completed(@, out, now) ELSE Failed(@, out, now)]
               /\ tasks_by_status' =
                      Move(tasks_by_status, "running", IF out.ok THEN "completed" ELSE "failed")
          ELSE UNCHANGED <<store, tasks_by_status>>
       /\ duration_obs' = [duration_obs EXCEPT ![m.id] = @ + 1]
       /\ last_outcome' = [last_outcome EXCEPT ![m.id] = out]
       /\ IF Retried(m, out)
          THEN /\ queue' = BagAdd(queue, [m EXCEPT !.retries = @ + 1])
               /\ retries_issued' = [retries_issued EXCEPT ![m.id] = @ + 1]
          ELSE UNCHANGED <<queue, retries_issued>>
    /\ inflight' = BagRemove(inflight, m)
    /\ reply' = NoReply
    /\ UNCHANGED <<nextId, submitting, now, tasks_submitted_counter, attempts,
                   redelivered, deleted, cacheVars>>

\* what `await session.commit()` raises when the database refuses the write
commit_error == Raise("OperationalError", "connection to the database was lost")

\* The commit of status = running raises (base.py:62).  It is outside the try
\* of run(): the body is not executed, nothing is written or observed, and the
\* exception reaches the entry point, which retries it like any other
\* non-ValueError
run_start_commit_error(m) ==
    /\ BagIn(m, queue)
    /\ store[m.id] # NoRow
    /\ IF Retried(m, commit_error)
       THEN /\ queue' = BagAdd(BagRemove(queue, m), [m EXCEPT !.retries = @ + 1])
            /\ retries_issued' = [retries_issued EXCEPT ![m.id] = @ + 1]
       ELSE /\ queue' = BagRemove(queue, m)
            /\ retries_issued' = retries_issued
    /\ reply' = NoReply
    /\ UNCHANGED <<store, nextId, submitting, inflight, now, tasks_by_status,
                   tasks_submitted_counter, duration_obs, attempts, last_outcome,
                   redelivered, deleted, cacheVars>>

\* The body ends and the commit that records its outcome raises.  After a
\* success that commit (base.py:77) is inside the try, so `except Exception`
\* catches the database error and writes failed with its text; when the
\* database is back (`recovered`) that write succeeds, the gauge moves, the
\* duration is observed and the database error is re-raised.  When the failed
\* write raises (base.py:102) the exception leaves run() at once.  Either way
\* the entry point sees a database error and retries it
run_finish_commit_error(m, ext, recovered) ==
    /\ BagIn(m, inflight)
    /\ ext \in Downstream(m.task_name)
    /\ store[m.id] # NoRow
    /\ LET out == execute(m.task_name, m.kwargs, ext) IN
       /\ recovered => out.ok
       /\ last_outcome' = [last_outcome EXCEPT ![m.id] = out]
       /\ IF recovered
          THEN /\ store' = [store EXCEPT ![m.id] = Failed(@, commit_error, now)]
               /\ tasks_by_status' = Move(tasks_by_status, "running", "failed")
               /\ duration_obs' = [duration_obs EXCEPT ![m.id] = @ + 1]
          ELSE UNCHANGED <<store, tasks_by_status, duration_obs>>
    /\ IF Retried(m, commit_error)
       THEN /\ queue' = BagAdd(queue, [m EXCEPT !.retries = @ + 1])
            /\ retries_issued' = [retries_issued EXCEPT ![m.id] = @ + 1]
       ELSE UNCHANGED <<queue, retries_issued>>
    /\ inflight' = BagRemove(inflight, m)
    /\ reply' = NoReply
    /\ UNCHANGED <<nextId, submitting, now, tasks_submitted_counter, attempts,
                   redelivered, deleted, cacheVars>>

\* ------------------------------------------------------------------------
\* Environment
\* ------------------------------------------------------------------------
\* task_acks_late: the broker delivers an unacknowledged message again when its
\* visibility timeout expires
Redeliver(m) ==
    /\ BagIn(m, inflight)
    /\ redelivered < MaxRedeliver
    /\ redelivered' = redelivered + 1
    /\ queue' = BagAdd(queue, m)
    /\ reply' = NoReply
    /\ UNCHANGED <<store, nextId, submitting, inflight, now, tasks_by_status,
                   tasks_submitted_counter, duration_obs, attempts, retries_issued,
                   last_outcome, deleted, cacheVars>>

\* task_time_limit / time_limit: the pool kills the worker process that exceeded
\* the hard limit.  Nothing of run() or of the entry point runs any more, and
\* with task_acks_late the message is acknowledged on a timeout
time_limit_exceeded(m) ==
    /\ BagIn(m, inflight)
    /\ inflight' = BagRemove(inflight, m)
    /\ reply' = NoReply
    /\ UNCHANGED <<store, nextId, submitting, queue, now, tasks_by_status,
                   tasks_submitted_counter, duration_obs, attempts, retries_issued,
                   last_outcome, redelivered, deleted, cacheVars>>

ExternalDelete(id) ==
    /\ store[id] # NoRow
    /\ Cardinality(deleted) < MaxDeletes
    /\ store' = [store EXCEPT ![id] = NoRow]
    /\ deleted' = deleted \cup {id}
    /\ reply' = NoReply
    /\ UNCHANGED <<nextId, submitting, queue, inflight, now, tasks_by_status,
                   tasks_submitted_counter, duration_obs, attempts, retries_issued,
                   last_outcome, redelivered, cacheVars>>

Tick ==
    /\ now < MaxTime
    /\ now' = now + 1
    /\ reply' = NoReply
    /\ UNCHANGED <<store, nextId, submitting, queue, inflight, tasks_by_status,
                   tasks_submitted_counter, duration_obs, attempts, retries_issued,
                   last_outcome, redelivered, deleted, cacheVars>>

\* ------------------------------------------------------------------------
\* Output cache (core/cache.py) and GET /get-task-output
\* ------------------------------------------------------------------------
\* json.dumps / json.loads; text that is not JSON is returned as it is
json_dumps(v) == [t |-> "json", of |-> v]
\* the integers whose decimal text the model can tell from other text
JsonInts == {5, 123}
\* json.loads on stored text: the output of json.dumps gives the value back;
\* raw text that happens to be JSON (a number, null) is parsed as well; any
\* other text raises JSONDecodeError
json_parses(text) ==
    \/ text.t = "json"
    \/ text.t = "lit" /\ (text.s = "null" \/ \E n \in JsonInts : text.s = ToString(n))
json_decode(text) ==
    IF text.t = "json" THEN text.of
    ELSE IF text.s = "null" THEN Null
    ELSE Num(0, CHOOSE n \in JsonInts : text.s = ToString(n))
\* try: return json.loads(value) / except json.JSONDecodeError: return value
json_loads(text) == IF json_parses(text) THEN json_decode(text) ELSE text

\* what redis-py sends for a value that is not a dict or a list: a string as it
\* is, a number as its decimal text
redis_text(value) ==
    IF value.t = "num" THEN Lit(ToString(value.r)) ELSE value

\* TaskOutputResponse(task_uuid=task.id, ...) built from a row
TaskOutputResponse(task_uuid, task) ==
    [task_uuid |-> [t |-> "uuid", id |-> task_uuid],
     task_name |-> task.task_name,
     status |-> task.status,
     task_output |-> task.result,
     error_message |-> task.error_message,
     created_at |-> task.created_at,
     completed_at |-> task.completed_at]

\* mode="json": a UUID becomes its string, a datetime its ISO 8601 string
json_mode(v) ==
    IF v.t = "uuid" THEN [t |-> "uuid_str", id |-> v.id]
    ELSE IF v.t = "datetime" THEN [t |-> "iso8601", n |-> v.n]
    ELSE v

\* response.model_dump(mode="json"): a dict
model_dump(r) ==
    [t |-> "dict",
     task_uuid |-> json_mode(r.task_uuid),
     task_name |-> r.task_name,
     status |-> r.status,
     task_output |-> r.task_output,
     error_message |-> r.error_message,
     created_at |-> json_mode(r.created_at),
     completed_at |-> json_mode(r.completed_at)]

\* field validation of TaskOutputResponse: strings are parsed to UUID / datetime
parse_field(v) ==
    IF v.t = "uuid_str" THEN [t |-> "uuid", id |-> v.id]
    ELSE IF v.t = "iso8601" THEN Time(v.n)
    ELSE v

\* a reader that hands the cached dict back as it is
TaskOutputResponse_unparsed(d) == d

\* TaskOutputResponse(**cached_output)
TaskOutputResponse_from(d) ==
    [task_uuid |-> parse_field(d.task_uuid),
     task_name |-> d.task_name,
     status |-> d.status,
     task_output |-> d.task_output,
     error_message |-> d.error_message,
     created_at |-> parse_field(d.created_at),
     completed_at |-> parse_field(d.completed_at)]

\* CacheService methods on client `client` and database `db`; `fault` is a
\* Redis error raised by the backend call.  Each gives the returned value, whether
\* an exception left the method, the database afterwards, and how many times the
\* call ran cache_hits_counter.inc() and cache_misses_counter.inc().
Uncounted(ret, raised, db) ==
    [ret |-> ret, raised |-> raised, db |-> db,
     cache_hits_counter |-> 0, cache_misses_counter |-> 0]

\* a get that counts a hit only when it hands a value back
CacheService_get_counting_values(client, db, key, fault) ==
    IF ~client THEN Uncounted(Null, FALSE, db)
    ELSE IF fault THEN Uncounted(Null, TRUE, db)
    ELSE IF db[make_key(key)] # NoEntry /\ json_loads(db[make_key(key)]) # Null
    THEN [ret |-> json_loads(db[make_key(key)]), raised |-> FALSE, db |-> db,
          cache_hits_counter |-> 1, cache_misses_counter |-> 0]
    ELSE [ret |-> Null, raised |-> FALSE, db |-> db,
          cache_hits_counter |-> 0, cache_misses_counter |-> 1]

CacheService_get(client, db, key, fault) ==
    IF ~client THEN Uncounted(Null, FALSE, db)
    ELSE IF fault THEN Uncounted(Null, TRUE, db)
    ELSE IF db[make_key(key)] # NoEntry
    THEN [ret |-> json_loads(db[make_key(key)]), raised |-> FALSE, db |-> db,
          cache_hits_counter |-> 1, cache_misses_counter |-> 0]
    ELSE [ret |-> Null, raised |-> FALSE, db |-> db,
          cache_hits_counter |-> 0, cache_misses_counter |-> 1]

\* a set without the `if not self._redis` guard: None has no setex
CacheService_set_unguarded(client, db, key, value, fault) ==
    IF ~client \/ fault THEN Uncounted(Null, TRUE, db)
    ELSE Uncounted(TRUE, FALSE,
                   [db EXCEPT ![make_key(key)] =
                       IF value.t \in {"dict", "list"} THEN json_dumps(value)
                       ELSE redis_text(value)])

CacheService_set(client, db, key, value, fault) ==
    IF ~client THEN Uncounted(FALSE, FALSE, db)
    ELSE IF fault THEN Uncounted(Null, TRUE, db)
    ELSE Uncounted(TRUE, FALSE,
                   [db EXCEPT ![make_key(key)] =
                       IF value.t \in {"dict", "list"} THEN json_dumps(value)
                       ELSE redis_text(value)])

CacheService_delete(client, db, key, fault) ==
    IF ~client THEN Uncounted(FALSE, FALSE, db)
    ELSE IF fault THEN Uncounted(Null, TRUE, db)
    ELSE Uncounted(db[make_key(key)] # NoEntry, FALSE,
                   [db EXCEPT ![make_key(key)] = NoEntry])

CacheService_exists(client, db, key, fault) ==
    IF ~client THEN Uncounted(FALSE, FALSE, db)
    ELSE IF fault THEN Uncounted(Null, TRUE, db)
    ELSE Uncounted(db[make_key(key)] # NoEntry, FALSE, db)

\* `if cached_output:`
truthy(v) == v # Null /\ v # [t |-> "dict"]

\* a reader that caches whatever it read
ShouldCache_always(task) == TRUE

\* `if task.status in (COMPLETED, FAILED)`: only these rows are cached
ShouldCache(task) == task.status \in {"completed", "failed"}

\* a reader that queries the table on every request
Answer_always_reading(code, task_uuid, body, lookup, store_read, cache_set) ==
    [code |-> code, handler |-> "get_task_output", asked |-> task_uuid, body |-> body,
     lookup |-> lookup, store_read |-> TRUE, cache_set |-> cache_set]

\* what get_task_output answers and what it touched on the way
Answer(code, task_uuid, body, lookup, store_read, cache_set) ==
    [code |-> code, handler |-> "get_task_output", asked |-> task_uuid, body |-> body,
     lookup |-> lookup, store_read |-> store_read, cache_set |-> cache_set]

\* the answer together with the counts of the cache calls the handler made
Counted(answer, got, written) ==
    [code |-> answer.code, handler |-> answer.handler, asked |-> answer.asked,
     body |-> answer.body, lookup |-> answer.lookup, store_read |-> answer.store_read,
     cache_set |-> answer.cache_set,
     cache_hits_counter |-> got.cache_hits_counter + written.cache_hits_counter,
     cache_misses_counter |-> got.cache_misses_counter + written.cache_misses_counter]

\* a reader that answers an id it does not know with an empty view
task_not_found_as_empty(task_uuid) ==
    Answer(200, task_uuid, Null, "miss", TRUE, "not called")

\* `if not task: raise HTTPException(status_code=404, detail="Task not found")`
task_not_found(task_uuid) ==
    Answer(404, task_uuid, Lit("Task not found"), "miss", TRUE, "not called")

\* GET /get-task-output?task_uuid=...: cache first, then the table; a terminal
\* row is written to the cache.  An exception of a cache call leaves the handler
\* and is answered 500 by the global exception handler.
get_task_output(task_uuid, get_fault, set_fault) ==
    LET key == task_output_key(task_uuid)
        cached_output == CacheService_get(redis_client, redis, key, get_fault)
        task == store[task_uuid]
        response == TaskOutputResponse(task_uuid, task)
        written == CacheService_set(redis_client, redis, key, model_dump(response), set_fault)
        not_called == Uncounted(Null, FALSE, redis)
    IN
    /\ IF cached_output.raised
       THEN /\ reply' = Counted(Answer(500, task_uuid, Lit("Internal server error"),
                                       "raised", FALSE, "not called"),
                                cached_output, not_called)
            /\ redis' = redis
       ELSE IF truthy(cached_output.ret)
       THEN /\ reply' = Counted(Answer(200, task_uuid,
                                       TaskOutputResponse_from(cached_output.ret),
                                       "hit", FALSE, "not called"),
                                cached_output, not_called)
            /\ redis' = redis
       ELSE IF task = NoRow
       THEN /\ reply' = Counted(task_not_found(task_uuid), cached_output, not_called)
            /\ redis' = redis
       ELSE IF ~ShouldCache(task)
       THEN /\ reply' = Counted(Answer(200, task_uuid, response, "miss", TRUE, "not called"),
                                cached_output, not_called)
            /\ redis' = redis
       ELSE IF written.raised
       THEN /\ reply' = Counted(Answer(500, task_uuid, Lit("Internal server error"),
                                       "miss", TRUE, "raised"),
                                cached_output, written)
            /\ redis' = redis
       ELSE /\ reply' = Counted(Answer(200, task_uuid, response, "miss", TRUE,
                                       IF written.ret THEN "stored" ELSE "no backend"),
                                cached_output, written)
            /\ redis' = written.db
    /\ UNCHANGED <<store, nextId, submitting, queue, inflight, now, tasks_by_status,
                   tasks_submitted_counter, duration_obs, attempts, retries_issued,
                   last_outcome, redelivered, deleted, redis_client>>

\* GET /tasks/{task_uuid}/status: the status of the row, or 404
status_query(task_uuid) ==
    /\ reply' = IF store[task_uuid] = NoRow
                THEN [code |-> 404, endpoint |-> "status", asked |-> task_uuid,
                      body |-> Lit("Task with UUID not found")]
                ELSE [code |-> 200, endpoint |-> "status", asked |-> task_uuid,
                      body |-> [task_uuid |-> task_uuid, status |-> store[task_uuid].status]]
    /\ UNCHANGED <<store, nextId, submitting, queue, inflight, now, tasks_by_status,
                   tasks_submitted_counter, duration_obs, attempts, retries_issued,
                   last_outcome, redelivered, deleted, cacheVars>>

\* a caller outside the handlers uses the CacheService methods directly
Called(op, key, r) ==
    [code |-> 0, op |-> op, key |-> key, ret |-> r.ret, raised |-> r.raised,
     cache_hits_counter |-> r.cache_hits_counter,
     cache_misses_counter |-> r.cache_misses_counter]

CacheValues == {[t |-> "dict", key |-> Lit("value")], Lit("test_value")}
\* values of every kind set() stores: a dict, a list, a number, a plain string,
\* and strings whose text is JSON
RoundTripValues ==
    CacheValues \cup {[t |-> "list", items |-> <<Lit("a")>>], Num(0, 5), Lit("123"),
                      Lit("null"), Lit("plain_string")}

cache_get(key, fault) ==
    LET r == CacheService_get(redis_client, redis, key, fault) IN
    /\ reply' = Called("get", key, r)
    /\ redis' = r.db
    /\ UNCHANGED <<store, nextId, submitting, queue, inflight, now, tasks_by_status,
                   tasks_submitted_counter, duration_obs, attempts, retries_issued,
                   last_outcome, redelivered, deleted, redis_client>>

cache_set(key, value, fault) ==
    LET r == CacheService_set(redis_client, redis, key, value, fault) IN
    /\ reply' = Called("set", key, r)
    /\ redis' = r.db
    /\ UNCHANGED <<store, nextId, submitting, queue, inflight, now, tasks_by_status,
                   tasks_submitted_counter, duration_obs, attempts, retries_issued,
                   last_outcome, redelivered, deleted, redis_client>>

cache_delete(key, fault) ==
    LET r == CacheService_delete(redis_client, redis, key, fault) IN
    /\ reply' = Called("delete", key, r)
    /\ redis' = r.db
    /\ UNCHANGED <<store, nextId, submitting, queue, inflight, now, tasks_by_status,
                   tasks_submitted_counter, duration_obs, attempts, retries_issued,
                   last_outcome, redelivered, deleted, redis_client>>

cache_exists(key, fault) ==
    LET r == CacheService_exists(redis_client, redis, key, fault) IN
    /\ reply' = Called("exists", key, r)
    /\ redis' = r.db
    /\ UNCHANGED <<store, nextId, submitting, queue, inflight, now, tasks_by_status,
                   tasks_submitted_counter, duration_obs, attempts, retries_issued,
                   last_outcome, redelivered, deleted, redis_client>>

\* CacheService.connect / disconnect (application start-up and shutdown)
connect ==
    /\ redis_client' = TRUE
    /\ reply' = NoReply
    /\ UNCHANGED <<store, nextId, submitting, queue, inflight, now, tasks_by_status,
                   tasks_submitted_counter, duration_obs, attempts, retries_issued,
                   last_outcome, redelivered, deleted, redis>>

\* `fault`: self._redis.close() raises and the client stays in place
disconnect(fault) ==
    /\ redis_client' = (redis_client /\ fault)
    /\ reply' = NoReply
    /\ UNCHANGED <<store, nextId, submitting, queue, inflight, now, tasks_by_status,
                   tasks_submitted_counter, duration_obs, attempts, retries_issued,
                   last_outcome, redelivered, deleted, redis>>

\* Redis drops an entry when its TTL (setex) runs out
Expire(k) ==
    /\ redis[k] # NoEntry
    /\ redis' = [redis EXCEPT ![k] = NoEntry]
    /\ reply' = NoReply
    /\ UNCHANGED <<store, nextId, submitting, queue, inflight, now, tasks_by_status,
                   tasks_submitted_counter, duration_obs, attempts, retries_issued,
                   last_outcome, redelivered, deleted, redis_client>>

Terminal == {"completed", "failed"}
HasRow(i) == store[i] # NoRow
Waiting(i) == {m \in BagToSet(queue) : m.id = i}
Executing(i) == {m \in BagToSet(inflight) : m.id = i}
\* at least one attempt of task i ran and no work item of it is left anywhere
Finished(i) == attempts[i] >= 1 /\ Waiting(i) = {} /\ Executing(i) = {}

Submit == nextId <= MaxTasks /\ \E req \in AcceptedRequests : run_task(req)
SubmitAny ==
    \E req \in Requests :
        /\ req \in AcceptedRequests => nextId <= MaxTasks
        /\ run_task(req)
\* a client submits one request and then the same {task_name, task_parameters} again
\* one request of a kind that calls no service and one of a kind that does
FewRequests == {r \in AcceptedRequests : r.task_name \in {"sum", "chatgpt"}}
SubmitFew == nextId <= MaxTasks /\ \E req \in FewRequests : run_task(req)
SubmitFirst == nextId = 1 /\ \E req \in FewRequests : run_task(req)
Resubmit ==
    /\ nextId > 1 /\ nextId <= 1 + MaxResubmits
    /\ \E i \in TaskIds :
          /\ store[i] # NoRow
          /\ run_task([task_name |-> store[i].task_name,
                       task_parameters |-> store[i].task_parameters])
ReadAny ==
    \E task_uuid \in {i \in TaskIds : i <= nextId} : get_task_output(task_uuid, FALSE, FALSE)
\* a client fetches the output of a task that has run to its end
ReadFinished ==
    \E task_uuid \in TaskIds : Finished(task_uuid) /\ get_task_output(task_uuid, FALSE, FALSE)
Enqueue == \E h \in submitting, broker_up \in BOOLEAN : delay(h, broker_up)
WorkerStart == \E m \in BagToSet(queue) : run_start(m)
WorkerFinish ==
    \E m \in BagToSet(inflight) : \E ext \in Downstream(m.task_name) : run_finish(m, ext)
BrokerRedeliver == \E m \in BagToSet(inflight) : Redeliver(m)
Deletion == \E id \in TaskIds : ExternalDelete(id)
\* a client asks for a task it submitted or for an id nobody was given; at most
\* one Redis call of the request fails
Read ==
    \E task_uuid \in {i \in TaskIds : i <= nextId}, fault \in {"none", "get", "setex"} :
        get_task_output(task_uuid, fault = "get", fault = "setex")
Expiry == \E k \in RedisKeys : Expire(k)
Disconnect == \E fault \in BOOLEAN : disconnect(fault)
CacheGet == \E key \in OtherKeys, fault \in BOOLEAN : cache_get(key, fault)
CacheSet ==
    \E key \in OtherKeys, value \in CacheValues, fault \in BOOLEAN :
        cache_set(key, value, fault)
CacheDelete == \E key \in OtherKeys, fault \in BOOLEAN : cache_delete(key, fault)
CacheExists == \E key \in OtherKeys, fault \in BOOLEAN : cache_exists(key, fault)

\* the lifecycle of accepted submissions: every re-delivery is a retry issued by
\* the entry point
Next ==
    \/ Submit
    \/ Enqueue
    \/ WorkerStart
    \/ WorkerFinish
    \/ Deletion
    \/ Tick

Spec == Init /\ [][Next]_vars

\* the ingress offered every kind of request, valid or not
NextIngress ==
    \/ SubmitAny
    \/ Enqueue
    \/ WorkerStart
    \/ WorkerFinish

SpecIngress == Init /\ [][NextIngress]_vars

\* the lifecycle under a broker that re-delivers unacknowledged messages
NextRedeliver ==
    \/ SubmitFew
    \/ Enqueue
    \/ WorkerStart
    \/ WorkerFinish
    \/ BrokerRedeliver

SpecRedeliver == Init /\ [][NextRedeliver]_vars

\* the lifecycle with attempts that run into the hard time limit
HardTimeLimit == \E m \in BagToSet(inflight) : time_limit_exceeded(m)

NextTimeLimit ==
    \/ Submit
    \/ Enqueue
    \/ WorkerStart
    \/ WorkerFinish
    \/ HardTimeLimit
    \/ Tick

SpecTimeLimit == Init /\ [][NextTimeLimit]_vars

\* the lifecycle over a database whose commits can fail
StartCommitError == \E m \in BagToSet(queue) : run_start_commit_error(m)
FinishCommitError ==
    \E m \in BagToSet(inflight) : \E ext \in Downstream(m.task_name), recovered \in BOOLEAN :
        run_finish_commit_error(m, ext, recovered)

NextStoreFault ==
    \/ SubmitFew
    \/ Enqueue
    \/ WorkerStart
    \/ WorkerFinish
    \/ StartCommitError
    \/ FinishCommitError

SpecStoreFault == Init /\ [][NextStoreFault]_vars

\* the lifecycle with both read endpoints in use and time passing
StatusQuery == \E task_uuid \in {i \in TaskIds : i <= nextId} : status_query(task_uuid)

NextFrame ==
    \/ SubmitFew
    \/ Enqueue
    \/ WorkerStart
    \/ WorkerFinish
    \/ ReadFinished
    \/ connect
    \/ StatusQuery
    \/ Tick

SpecFrame == Init /\ [][NextFrame]_vars

\* sum tasks with numbers around the magnitude ceiling
SubmitSum == nextId <= MaxTasks /\ \E req \in SumRequests : run_task(req)

NextSum ==
    \/ SubmitSum
    \/ Enqueue
    \/ WorkerStart
    \/ WorkerFinish

SpecSum == Init /\ [][NextSum]_vars

\* submissions at the edges of the validator's checks
SubmitEdge == nextId <= MaxTasks /\ \E req \in EdgeRequests : run_task(req)

NextEdge ==
    \/ SubmitEdge
    \/ Enqueue
    \/ WorkerStart
    \/ WorkerFinish

SpecEdge == Init /\ [][NextEdge]_vars

\* the CacheService used as a key-value store for values of every kind
RoundTripSet ==
    \E key \in OtherKeys, value \in RoundTripValues, fault \in BOOLEAN :
        cache_set(key, value, fault)

NextRoundTrip ==
    \/ connect
    \/ Disconnect
    \/ RoundTripSet
    \/ CacheGet
    \/ CacheDelete
    \/ CacheExists
    \/ Expiry

SpecRoundTrip == Init /\ [][NextRoundTrip]_vars

\* the lifecycle read through the cache-aside output endpoint
NextReader ==
    \/ Submit
    \/ Enqueue
    \/ WorkerStart
    \/ WorkerFinish
    \/ Read
    \/ connect
    \/ Disconnect
    \/ Expiry

SpecReader == Init /\ [][NextReader]_vars

\* the lifecycle when the broker delivers every queued message and every
\* attempt a worker started comes to its end
NextLive ==
    \/ Submit
    \/ Enqueue
    \/ WorkerStart
    \/ WorkerFinish
    \/ Tick

SpecLive ==
    /\ Init /\ [][NextLive]_vars
    /\ WF_vars(WorkerStart)
    /\ WF_vars(WorkerFinish)

\* the CacheService used directly and through get_task_output, with the
\* backend client present or absent
NextCache ==
    \/ SubmitFew
    \/ Enqueue
    \/ WorkerStart
    \/ WorkerFinish
    \/ ReadAny
    \/ connect
    \/ Disconnect
    \/ CacheGet
    \/ CacheSet
    \/ CacheDelete
    \/ CacheExists

SpecCache == Init /\ [][NextCache]_vars

\* the same request submitted more than once, the outputs read through a
\* connected cache
NextDuplicates ==
    \/ SubmitFirst
    \/ Resubmit
    \/ Enqueue
    \/ WorkerStart
    \/ WorkerFinish
    \/ ReadFinished
    \/ connect

SpecDuplicates == Init /\ [][NextDuplicates]_vars

\* ------------------------------------------------------------------------
\* Properties
\* ------------------------------------------------------------------------
Transient(out) == out # Null /\ ~out.ok /\ out.cls # "ValueError"
Permanent(out) == out # Null /\ ~out.ok /\ out.cls = "ValueError"

StatusStep(s1, s2) ==
    \/ s1 = s2
    \/ s1 = "pending" /\ s2 = "running"
    \/ s1 = "running" /\ s2 \in Terminal

\* C1: the stored status of a task only moves pending -> running ->
\* {completed | failed}; once it is completed or failed no later step changes it.
C1_StatusMonotonic ==
    [][\A i \in TaskIds :
          (HasRow(i) /\ store'[i] # NoRow) => StatusStep(store[i].status, store'[i].status)]_vars

\* C2: while the status is pending or running, result and error are both null;
\* a completed row has a result and no error; a failed row has an error and no
\* result.
C2_ResultErrorMatchStatus ==
    \A i \in TaskIds :
        HasRow(i) =>
            /\ store[i].status \in {"pending", "running"} =>
                   store[i].result = Null /\ store[i].error_message = Null
            /\ store[i].status = "completed" =>
                   store[i].result # Null /\ store[i].error_message = Null
            /\ store[i].status = "failed" =>
                   store[i].error_message # Null /\ store[i].result = Null

\* C3: completed_at is written at most once: after it is set, neither it nor the
\* result or error written with it is changed by a later step.
C3_CompletedAtWrittenOnce ==
    [][\A i \in TaskIds :
          (HasRow(i) /\ store[i].completed_at # Null /\ store'[i] # NoRow) =>
              /\ store'[i].completed_at = store[i].completed_at
              /\ store'[i].result = store[i].result
              /\ store'[i].error_message = store[i].error_message]_vars

\* what GET /tasks/{id}/status answers for an existing row
get_task_status(i) == [task_uuid |-> i, status |-> store[i].status]

\* C4: while a retry of a task is waiting for re-delivery, its row shows neither
\* status failed nor an error message, and the status query does not answer
\* failed.
C4_RetryNotPersisted ==
    \A i \in TaskIds :
        (HasRow(i) /\ \E m \in Waiting(i) : m.retries >= 1) =>
            /\ store[i].status # "failed"
            /\ store[i].error_message = Null
            /\ get_task_status(i).status # "failed"

\* C5: a task whose body raises a transient failure on every attempt is executed
\* at most max_retries + 1 times, is not re-delivered after that, and ends with
\* status failed and the error message of its last attempt.
C5_TransientRetriesBounded ==
    \A i \in TaskIds :
        /\ attempts[i] <= max_retries + 1
        /\ \A m \in Waiting(i) \cup Executing(i) : m.retries <= max_retries
        /\ (Finished(i) /\ Transient(last_outcome[i])) =>
               /\ attempts[i] = max_retries + 1
               /\ retries_issued[i] = max_retries
               /\ HasRow(i) =>
                      /\ store[i].status = "failed"
                      /\ store[i].error_message = last_outcome[i].msg

C5_Witness ==
    \E i \in TaskIds :
        /\ Finished(i) /\ Transient(last_outcome[i]) /\ HasRow(i)
        /\ attempts[i] = max_retries + 1
        /\ store[i].status = "failed"

\* C6: a body that raises a validation-class failure (ValueError) leaves the task
\* failed with that message and issues no retry; when it happens on the first
\* attempt the number of re-deliveries stays zero.
C6_PermanentNotRetried ==
    \A i \in TaskIds :
        Permanent(last_outcome[i]) =>
            /\ Finished(i)
            /\ retries_issued[i] = attempts[i] - 1
            /\ attempts[i] = 1 => retries_issued[i] = 0
            /\ HasRow(i) =>
                   /\ store[i].status = "failed"
                   /\ store[i].error_message = last_outcome[i].msg

C6_Witness ==
    \E i \in TaskIds :
        /\ HasRow(i) /\ store[i].task_name = "weather"
        /\ last_outcome[i] = Raise("ValueError", "City not found")
        /\ attempts[i] = 1 /\ retries_issued[i] = 0
        /\ store[i].status = "failed"

\* C7: when an attempt fails with a transient error and the re-delivered attempt
\* succeeds with result R2, the task ends completed with result R2.
C7_RetryThenSuccess ==
    \A i \in TaskIds :
        (Finished(i) /\ HasRow(i) /\ last_outcome[i] # Null /\ last_outcome[i].ok) =>
            /\ store[i].status = "completed"
            /\ store[i].result = last_outcome[i].val

C7_Witness ==
    \E i \in TaskIds :
        /\ Finished(i) /\ HasRow(i)
        /\ attempts[i] = 2 /\ retries_issued[i] = 1
        /\ last_outcome[i] # Null /\ last_outcome[i].ok
        /\ store[i].status = "completed"
        /\ store[i].error_message = Lit("Open-Meteo API request timed out")

\* C8: the execution duration of a task is observed once, however many attempts
\* the task needed to reach its final state.
C8_DurationObservedOnce ==
    \A i \in TaskIds : Finished(i) => duration_obs[i] = 1

\* C9: a submission rejected by validation creates nothing: the table, the
\* queue and the submitted / pending metrics are unchanged, and the caller gets
\* the rejection with its reason in the same step.
C9_RejectionCreatesNothing ==
    [][/\ \A r \in Rejections :
             run_task(r.req) => reply' = [code |-> r.code, detail |-> r.detail]
       /\ (reply'.code \in {400, 422}) =>
             UNCHANGED <<store, nextId, submitting, queue, inflight, tasks_by_status,
                         tasks_submitted_counter>>]_vars

C9_Witness ==
    /\ reply = [code |-> 400, detail |-> "Parameter 'a' exceeds maximum allowed value"]
    /\ nextId > 1
    /\ tasks_submitted_counter = nextId - 1

\* C10: the row is committed before the message is handed to the broker: every
\* work item in the queue or being executed belongs to a row created pending
\* (unless the row was deleted from outside), and the id answered to the
\* submitter is the id of that row and of the work item.
C10_PersistBeforeEnqueue ==
    /\ \A m \in BagToSet(queue) \cup BagToSet(inflight) :
          /\ m.id < nextId
          /\ HasRow(m.id) \/ m.id \in deleted
          /\ HasRow(m.id) =>
                 /\ store[m.id].task_name = m.task_name
                 /\ store[m.id].task_parameters = m.kwargs
                 /\ attempts[m.id] = 0 => store[m.id].status = "pending"
    /\ reply.code = 202 =>
          \E m \in BagToSet(queue) :
              /\ m.id = reply.task_uuid /\ m.retries = 0
              /\ HasRow(m.id) \/ m.id \in deleted

C10_Witness ==
    \E m \in BagToSet(queue) :
        /\ reply = [code |-> 202, task_uuid |-> m.id]
        /\ HasRow(m.id) /\ store[m.id].status = "pending"
        /\ store[m.id].task_parameters = m.kwargs

\* a row whose handler is gone and for which no work item was ever enqueued
Orphaned(i) ==
    /\ HasRow(i)
    /\ \A h \in submitting : h.id # i
    /\ Waiting(i) = {} /\ Executing(i) = {}
    /\ attempts[i] = 0

\* C11: when the row is committed and the enqueue call fails, the row is not
\* rolled back; it stays in the table with status pending, no work item exists
\* for it, and no step of the program moves it out of pending.
C11_OrphanStaysPending ==
    [][/\ reply' = [code |-> 500, detail |-> "Internal Server Error"] =>
             /\ store' = store /\ queue' = queue /\ inflight' = inflight
             /\ \A h \in submitting \ submitting' : HasRow(h.id) => Orphaned(h.id)'
       /\ \A i \in TaskIds :
             Orphaned(i) =>
                 /\ store[i].status = "pending"
                 /\ store'[i] # NoRow => store'[i] = store[i] /\ Orphaned(i)']_vars

C11_Witness ==
    \E i \in TaskIds :
        /\ Orphaned(i) /\ store[i].status = "pending"
        /\ store[i].created_at = Time(0) /\ now = 1
        /\ reply = NoReply

\* the request a row was created from
RequestOf(i) == [task_name |-> store[i].task_name,
                 task_parameters |-> store[i].task_parameters]
SameRequest(i, j) == HasRow(i) /\ HasRow(j) /\ i # j /\ RequestOf(i) = RequestOf(j)
\* this step is a worker transition (start or end of an attempt) of task i
WorkerStepOf(i) == attempts'[i] # attempts[i] \/ duration_obs'[i] # duration_obs[i]

\* C12: there is no deduplication: submitting the {task_name, task_parameters}
\* of an existing row again creates a row under a fresh id and leaves the
\* earlier row alone, its enqueue adds a work item of its own, and a worker
\* transition of one task changes neither the row, the work items nor the cache
\* entry of any other task.
C12_NoDeduplication ==
    [][/\ \A i \in TaskIds :
             (HasRow(i) /\ run_task(RequestOf(i))) =>
                 /\ nextId # i /\ ~HasRow(nextId)
                 /\ nextId' = nextId + 1
                 /\ store' = [store EXCEPT ![nextId] = store'[nextId]]
                 /\ store'[nextId] # NoRow /\ store'[nextId].status = "pending"
                 /\ store'[nextId].task_name = store[i].task_name
                 /\ store'[nextId].task_parameters = store[i].task_parameters
                 /\ [id |-> nextId, req |-> RequestOf(i)] \in submitting'
       /\ \A h \in submitting :
             delay(h, TRUE) =>
                 /\ Waiting(h.id) = {}
                 /\ queue' = BagAdd(queue, Message(h.id, h.req.task_name,
                                                   h.req.task_parameters, 0))
       /\ \A i \in TaskIds :
             WorkerStepOf(i) =>
                 /\ redis' = redis
                 /\ \A j \in TaskIds \ {i} :
                       /\ store'[j] = store[j]
                       /\ Waiting(j)' = Waiting(j) /\ Executing(j)' = Executing(j)]_vars

C12_Witness ==
    /\ SameRequest(1, 2)
    /\ store[1].status = "completed" /\ Finished(1)
    /\ redis[make_key(task_output_key(1))] # NoEntry
    /\ store[2].status = "failed" /\ Finished(2)
    /\ redis[make_key(task_output_key(2))] = NoEntry

\* the row is committed and the broker took the message
Accepted(i) ==
    HasRow(i) /\ (Waiting(i) # {} \/ Executing(i) # {} \/ attempts[i] >= 1)

\* C13: when the broker delivers every work item and every started attempt
\* ends, each accepted task (row committed, enqueue acknowledged) eventually has
\* status completed or failed with no work item left, and keeps it; it does
\* not stay pending or running forever.
C13_AcceptedTerminates ==
    \A i \in TaskIds :
        [](Accepted(i) => <>[](Finished(i) /\ HasRow(i) /\ store[i].status \in Terminal))

C13_Witness ==
    \E i \in TaskIds :
        /\ Accepted(i) /\ Finished(i)
        /\ store[i].status \in Terminal
        /\ retries_issued[i] >= 1
        /\ queue = EmptyBag /\ inflight = EmptyBag /\ submitting = {}

\* the reply is an answer of get_task_output
IsAnswer(r) == "handler" \in DOMAIN r
\* the view cached for task i, or Null
CachedView(i) ==
    IF redis[make_key(task_output_key(i))] = NoEntry THEN Null
    ELSE json_loads(redis[make_key(task_output_key(i))])

\* C14: every task-output entry in the cache holds a view whose status is
\* completed or failed, and a get_task_output that reads a pending or running
\* row answers that view without calling the cache write: the task still has
\* no entry afterwards.
C14_OnlyTerminalCached ==
    /\ \A i \in TaskIds : CachedView(i) # Null => CachedView(i).status \in Terminal
    /\ (IsAnswer(reply) /\ reply.code = 200 /\ reply.lookup = "miss"
        /\ reply.body.status \in {"pending", "running"}) =>
          /\ reply.cache_set = "not called"
          /\ redis_client => CachedView(reply.asked) = Null
          /\ reply.body = TaskOutputResponse(reply.asked, store[reply.asked])

C14_Witness ==
    /\ IsAnswer(reply) /\ reply.code = 200 /\ reply.lookup = "miss"
    /\ redis_client
    /\ reply.body.status = "running"
    /\ attempts[reply.asked] >= 2
    /\ CachedView(reply.asked) = Null

\* C15: on a cache hit get_task_output answers exactly the cached view, makes
\* no query to the table and writes neither the table nor the cache; on a miss
\* it queries the row of the id asked for and answers from it.
C15_HitSkipsStore ==
    [][IsAnswer(reply') =>
          /\ reply'.lookup = "hit" =>
                /\ CachedView(reply'.asked) # Null
                /\ reply'.code = 200
                /\ reply'.body = TaskOutputResponse_from(CachedView(reply'.asked))
                /\ ~reply'.store_read
                /\ reply'.cache_set = "not called"
                /\ store' = store /\ redis' = redis
          /\ reply'.lookup = "miss" =>
                /\ reply'.store_read
                /\ store' = store
                /\ reply'.code = 404 <=> store[reply'.asked] = NoRow
                /\ reply'.code = 200 =>
                       reply'.body = TaskOutputResponse(reply'.asked, store[reply'.asked])]_vars

C15_Witness ==
    /\ IsAnswer(reply) /\ reply.lookup = "hit"
    /\ reply.body.status = "failed"
    /\ HasRow(reply.asked) /\ store[reply.asked].status = "running"

C17_CacheNeverAuthoritative ==
    (IsAnswer(reply) /\ reply.code = 200) =>
        /\ HasRow(reply.asked)
        /\ reply.body = TaskOutputResponse(reply.asked, store[reply.asked])

\* C18: when the cache write of get_task_output for a terminal row raises, the
\* caller still gets the view read from the table.
C18_CacheWriteBestEffort ==
    (IsAnswer(reply) /\ reply.cache_set = "raised") =>
        /\ reply.code = 200
        /\ reply.body = TaskOutputResponse(reply.asked, store[reply.asked])

\* C19: when the cache lookup of get_task_output raises, the request goes on as
\* on a miss: the table is queried and the caller gets the row's view or 404,
\* not the cache error.
C19_CacheReadErrorIsMiss ==
    (IsAnswer(reply) /\ reply.lookup = "raised") =>
        /\ reply.store_read
        /\ reply.code = (IF HasRow(reply.asked) THEN 200 ELSE 404)
        /\ HasRow(reply.asked) =>
               reply.body = TaskOutputResponse(reply.asked, store[reply.asked])

\* the reply is the return of a direct CacheService call
IsCall(r) == "op" \in DOMAIN r

\* C20: while no backend client is set (never connected, or after disconnect)
\* no cache method raises or changes the Redis database: get returns None, set,
\* delete and exists return False, and get_task_output answers every request
\* from the table.
C20_NoBackendNoOp ==
    [][~redis_client =>
          /\ IsCall(reply') =>
                /\ ~reply'.raised
                /\ reply'.ret = (IF reply'.op = "get" THEN Null ELSE FALSE)
                /\ redis' = redis
          /\ IsAnswer(reply') =>
                /\ reply'.lookup = "miss" /\ reply'.store_read
                /\ reply'.cache_set \in {"not called", "no backend"}
                /\ reply'.code = (IF HasRow(reply'.asked) THEN 200 ELSE 404)
                /\ HasRow(reply'.asked) =>
                       reply'.body = TaskOutputResponse(reply'.asked, store[reply'.asked])
                /\ redis' = redis /\ store' = store]_vars

\* after a disconnect, with entries left in Redis, a completed task is read
\* from the table
C20_Witness ==
    /\ ~redis_client
    /\ IsAnswer(reply) /\ reply.code = 200 /\ reply.cache_set = "no backend"
    /\ CachedView(reply.asked) # Null
    /\ redis[make_key(<<"test_key">>)] # NoEntry

\* C21: a get_task_output for an id that has neither a cache entry nor a row is
\* answered 404 "Task not found", and the request writes nothing: the table and
\* the Redis database are the same after it, and no cache set was attempted
C21_UnknownIdNotFound ==
    [][\A i \in TaskIds :
          (/\ IsAnswer(reply') /\ reply'.asked = i /\ reply'.lookup # "raised"
           /\ ~HasRow(i) /\ redis[make_key(task_output_key(i))] = NoEntry)
          => /\ reply'.code = 404
             /\ reply'.body = Lit("Task not found")
             /\ reply'.cache_set = "not called"
             /\ store' = store
             /\ redis' = redis]_vars

\* an unknown id was answered 404 through a connected cache that holds the entry
\* of another task
C21_Witness ==
    /\ IsAnswer(reply) /\ reply.code = 404 /\ reply.lookup = "miss"
    /\ redis_client
    /\ ~HasRow(reply.asked)
    /\ \E j \in TaskIds : j # reply.asked /\ redis[make_key(task_output_key(j))] # NoEntry

\* C22: when the row of a delivered message is missing, the attempt runs all the
\* same: the start of the attempt and its end create no row and move no status
\* gauge, the body is executed and its outcome is the outcome of the body for the
\* message's parameters, the duration is observed, and the entry point retries
\* or not by the same rule as for a task with a row
C22_MissingRowStillRuns ==
    [][\A i \in TaskIds :
          ~HasRow(i) =>
            /\ attempts'[i] # attempts[i] =>
                  /\ store' = store /\ tasks_by_status' = tasks_by_status
                  /\ \E m \in Waiting(i) : inflight' = BagAdd(inflight, m)
            /\ duration_obs'[i] # duration_obs[i] =>
                  /\ store' = store /\ tasks_by_status' = tasks_by_status
                  /\ \E m \in Executing(i) : \E ext \in Downstream(m.task_name) :
                        /\ last_outcome'[i] = execute(m.task_name, m.kwargs, ext)
                        /\ inflight' = BagRemove(inflight, m)
                        /\ IF Retried(m, last_outcome'[i])
                           THEN queue' = BagAdd(queue, [m EXCEPT !.retries = @ + 1])
                           ELSE queue' = queue]_vars

\* the row was gone before the only attempt started (the pending gauge was not
\* moved), and that attempt returned the result of the body
C22_Witness ==
    \E i \in TaskIds :
        /\ ~HasRow(i) /\ i \in deleted
        /\ attempts[i] = 1 /\ duration_obs[i] = 1 /\ Finished(i)
        /\ tasks_by_status["pending"] = 1 /\ tasks_by_status["running"] = 0
        /\ last_outcome[i] # Null /\ last_outcome[i].ok

\* C23: the update to running is committed before the body starts: while the
\* body of an attempt is running, the row of its task (when there is one) is
\* never pending
C23_RunningBeforeBody ==
    \A i \in TaskIds :
        (Executing(i) # {} /\ HasRow(i)) => store[i].status # "pending"

\* the body of the first attempt of a task is running and its row says running
C23_Witness ==
    \E i \in TaskIds :
        /\ Executing(i) # {} /\ HasRow(i)
        /\ attempts[i] = 1 /\ last_outcome[i] = Null
        /\ store[i].status = "running"

\* C24: when the only re-deliveries are the retries issued by the entry point,
\* at most one attempt of a task is executing at any time, and a retry waits in
\* the queue only when no attempt of its task is executing
C24_OneAttemptAtATime ==
    \A i \in TaskIds :
        /\ Cardinality(Executing(i)) <= 1
        /\ \A m \in Executing(i) : CopiesIn(m, inflight) = 1
        /\ Waiting(i) # {} => Executing(i) = {}

\* a retry issued by the entry point is executing, alone
C24_Witness ==
    \E i \in TaskIds :
        /\ \E m \in Executing(i) : m.retries >= 1
        /\ retries_issued[i] >= 1
        /\ Transient(last_outcome[i])

\* C25: the running transition has no lease and no status check, and every
\* write is last-writer-wins: whatever the row says, a message taken from the
\* queue starts an attempt that sets the row to running, also while another
\* attempt of the task is executing; and every attempt that ends overwrites
\* the row with its own outcome
C25_LastWriterWins ==
    [][\A i \in TaskIds :
          HasRow(i) =>
            /\ (\E m \in Waiting(i) : queue' = BagRemove(queue, m)) =>
                  /\ attempts'[i] = attempts[i] + 1
                  /\ store'[i].status = "running"
                  /\ \E m \in Waiting(i) : inflight' = BagAdd(inflight, m)
            /\ duration_obs'[i] # duration_obs[i] =>
                  IF last_outcome'[i].ok
                  THEN /\ store'[i].status = "completed"
                       /\ store'[i].result = last_outcome'[i].val
                  ELSE /\ store'[i].status = "failed"
                       /\ store'[i].error_message = last_outcome'[i].msg]_vars

\* two attempts of one task overlapped after a re-delivery by the broker: one
\* has committed completed while the other, started before that commit, is
\* still executing
C25_Witness ==
    \E i \in TaskIds :
        /\ redelivered >= 1 /\ retries_issued[i] = 0
        /\ attempts[i] = 2 /\ duration_obs[i] = 1
        /\ Executing(i) # {}
        /\ HasRow(i) /\ store[i].status = "completed"

\* C26: an attempt ended by the hard time limit is retried or its task is marked
\* failed: a row never says running while no message of its task is waiting or
\* executing
C26_TimeLimitIsRetried ==
    \A i \in TaskIds :
        (HasRow(i) /\ store[i].status = "running") =>
            (Waiting(i) # {} \/ Executing(i) # {})

\* C27: a body that succeeded is never recorded as failed because only a write
\* to the table failed: a row that says failed belongs to a task whose latest
\* body raised
C27_StoreErrorNotRecordedAsFailure ==
    \A i \in TaskIds :
        (HasRow(i) /\ store[i].status = "failed") =>
            (last_outcome[i] # Null /\ ~last_outcome[i].ok)

\* a failure that is the downstream service's permanent rejection of the
\* request: OpenAI refusing the API key (401), Open-Meteo not knowing the city
DownstreamRejection(out) ==
    /\ out # Null /\ ~out.ok
    /\ out.msg \in {Lit("Incorrect API key provided"), Lit("City not found")}

\* C28: only transient-class failures are re-enqueued: a retry waits in the
\* queue only after a failure that is neither bad input detected by the body
\* (ValueError) nor a permanent rejection by the downstream service
C28_OnlyTransientRetried ==
    \A i \in TaskIds : \A m \in Waiting(i) :
        m.retries >= 1 =>
            /\ Transient(last_outcome[i])
            /\ ~DownstreamRejection(last_outcome[i])

\* C29: for every status the tasks_by_status gauge equals the number of rows
\* with that status, and no gauge is negative
C29_GaugeCountsRows ==
    \A s \in Statuses :
        /\ tasks_by_status[s] = Cardinality({i \in TaskIds : HasRow(i) /\ store[i].status = s})
        /\ tasks_by_status[s] >= 0

IsStatusAnswer(r) == "endpoint" \in DOMAIN r

\* C30: a row, once created, stays in the table under its id with the same
\* task_name, task_parameters and created_at, whatever the workers write; and
\* a request to get_task_output or to the status endpoint leaves the table as
\* it was
C30_Frame ==
    [][/\ \A i \in TaskIds :
            HasRow(i) =>
              /\ store'[i] # NoRow
              /\ store'[i].task_name = store[i].task_name
              /\ store'[i].task_parameters = store[i].task_parameters
              /\ store'[i].created_at = store[i].created_at
       /\ (IsAnswer(reply') \/ IsStatusAnswer(reply')) => store' = store]_vars

\* the status endpoint answered for a task that a worker completed at a
\* later time than it was created, and whose output was read into the cache
C30_Witness ==
    /\ IsStatusAnswer(reply) /\ reply.code = 200
    /\ LET i == reply.asked IN
         /\ store[i].status = "completed" /\ store[i].result # Null
         /\ store[i].completed_at # store[i].created_at
         /\ redis[make_key(task_output_key(i))] # NoEntry

\* |v| > 1e15, read off the representation k * 10^15 + r
OverCeiling(v) ==
    /\ v.t = "num"
    /\ (v.k > 1 \/ v.k < -1 \/ (v.k = 1 /\ v.r > 0) \/ (v.k = -1 /\ v.r < 0))

\* C31: a sum submission with a number whose magnitude is over the ceiling is
\* answered 400 with an "exceeds maximum" reason and creates no row; a pair of
\* finite numbers within the ceiling (the ceiling itself included) is accepted
\* as a pending row, and the body of its attempt returns result = a + b with
\* a and b as submitted
C31_SumWithinCeiling ==
    [][/\ \A req \in SumRequests :
            run_task(req) =>
              LET a == req.task_parameters.a
                  b == req.task_parameters.b
              IN IF OverCeiling(a) \/ OverCeiling(b)
                 THEN /\ reply'.code = 400
                      /\ reply'.detail \in {"Parameter 'a' exceeds maximum allowed value",
                                            "Parameter 'b' exceeds maximum allowed value"}
                      /\ store' = store /\ nextId' = nextId /\ submitting' = submitting
                 ELSE (a.t = "num" /\ b.t = "num") =>
                      /\ store'[nextId] # NoRow
                      /\ store'[nextId].status = "pending"
                      /\ store'[nextId].task_parameters = req.task_parameters
       /\ \A i \in TaskIds :
            (duration_obs'[i] # duration_obs[i] /\ HasRow(i)) =>
              LET a == store[i].task_parameters.a
                  b == store[i].task_parameters.b
                  out == last_outcome'[i]
              IN /\ out.ok
                 /\ out.val.a = a /\ out.val.b = b
                 /\ out.val.result.t = "num"
                 /\ out.val.result.k = a.k + b.k
                 /\ out.val.result.r = a.r + b.r
                 /\ store'[i].result = out.val]_vars

\* a task whose two numbers are the ceiling itself completed with 2e15
C31_Witness ==
    \E i \in TaskIds :
        /\ HasRow(i) /\ store[i].status = "completed"
        /\ store[i].task_parameters = [a |-> Num(1, 0), b |-> Num(1, 0)]
        /\ store[i].result.result = Num(2, 0)

\* a text that is empty or made of whitespace only
Blank(v) == v.t = "str" /\ \A k \in 1..Len(v.runs) : v.runs[k].c \in {" ", "\t"}

\* C32: a chatgpt submission whose prompt is empty or whitespace only, and a
\* weather submission whose city is empty or whitespace only, is answered 400
\* with the "must be a non-empty string" reason, and nothing is created
C32_BlankTextRejected ==
    [][\A req \in EdgeRequests :
          run_task(req) =>
            LET p == req.task_parameters IN
            /\ (req.task_name = "chatgpt" /\ Blank(p.prompt)) =>
                  /\ reply' = [code |-> 400,
                               detail |-> "Parameter 'prompt' must be a non-empty string"]
                  /\ UNCHANGED <<store, nextId, submitting, queue, tasks_by_status,
                                 tasks_submitted_counter>>
            /\ (req.task_name = "weather" /\ Blank(p.city)) =>
                  /\ reply' = [code |-> 400,
                               detail |-> "Parameter 'city' must be a non-empty string"]
                  /\ UNCHANGED <<store, nextId, submitting, queue, tasks_by_status,
                                 tasks_submitted_counter>>]_vars

\* a blank city was rejected and the table holds no row
C32_Witness ==
    /\ reply = [code |-> 400, detail |-> "Parameter 'city' must be a non-empty string"]
    /\ nextId = 1
    /\ \A i \in TaskIds : ~HasRow(i)

\* C36: every parameter map the validator accepted is dispatched: with the
\* broker up, the enqueue step of an accepted submission answers 202 and puts
\* the message of the task into the queue, with keys the entry point can bind
C36_AcceptedIsDispatched ==
    [][\A h \in submitting :
          delay(h, TRUE) =>
            /\ reply' = [code |-> 202, task_uuid |-> h.id]
            /\ queue' = BagAdd(queue, Message(h.id, h.req.task_name,
                                              h.req.task_parameters, 0))
            /\ DOMAIN h.req.task_parameters \subseteq EntryParams(h.req.task_name)]_vars

\* C33: a value stored by set on a connected cache is the value a get of the
\* same key returns before the entry expires
C33_CacheRoundTrip ==
    [][\A key \in OtherKeys, v \in RoundTripValues :
          (redis_client /\ cache_set(key, v, FALSE)) =>
              /\ reply'.ret = TRUE
              /\ ~CacheService_get(redis_client', redis', key, FALSE).raised
              /\ CacheService_get(redis_client', redis', key, FALSE).ret = v]_vars

\* C34: every attempt that executes the body observes the duration exactly
\* once, at its end, whether the body returned or raised and whether or not
\* the row exists; no other step observes anything; and the failure of a body
\* that raised is the one the entry point sees: it is retried exactly when it
\* is not a ValueError and the budget allows
C34_DurationOncePerAttempt ==
    [][\A i \in TaskIds :
          IF \E m \in Executing(i) : inflight' = BagRemove(inflight, m)
          THEN /\ duration_obs'[i] = duration_obs[i] + 1
               /\ \E m \in Executing(i) : \E ext \in Downstream(m.task_name) :
                     /\ last_outcome'[i] = execute(m.task_name, m.kwargs, ext)
                     /\ inflight' = BagRemove(inflight, m)
                     /\ (queue' # queue) <=>
                           (/\ ~last_outcome'[i].ok
                            /\ last_outcome'[i].cls # "ValueError"
                            /\ m.retries < max_retries)
          ELSE duration_obs'[i] = duration_obs[i]]_vars

\* a task without a row had two attempts, each observed once, and the second
\* one raised
C34_Witness ==
    \E i \in TaskIds :
        /\ ~HasRow(i) /\ i \in deleted
        /\ attempts[i] = 2 /\ duration_obs[i] = 2 /\ Executing(i) = {}
        /\ ~last_outcome[i].ok

\* C35: under duplicate and concurrent deliveries of a message, once no attempt
\* of a task is executing any more the row of a task that was attempted is
\* completed or failed, never running or pending
C35_TerminalAfterDuplicates ==
    \A i \in TaskIds :
        (HasRow(i) /\ attempts[i] >= 1 /\ Executing(i) = {}) =>
            store[i].status \in Terminal

\* the broker re-delivered a message; the attempts of the task overlapped (a
\* result was written and a later-ending attempt wrote failed over it), all of
\* them have ended and the row is failed
C35_Witness ==
    \E i \in TaskIds :
        /\ redelivered >= 1 /\ attempts[i] >= 2 /\ Finished(i)
        /\ duration_obs[i] = attempts[i]
        /\ HasRow(i) /\ store[i].status = "failed" /\ store[i].result # Null

\* the reasons of the input checks the bodies make themselves
BodyInputChecks ==
    {Lit("Parameter 'a' must be numeric"), Lit("Parameter 'b' must be numeric"),
     Lit("Parameter 'prompt' must be a non-empty string"),
     Lit("Prompt exceeds maximum length"),
     Lit("Parameter 'city' must be a non-empty string"),
     Lit("Parameter 'units' must be 'metric', 'imperial', or 'kelvin'")}

\* C37: validator and bodies agree: no attempt of an accepted task fails on an
\* input check of its body
C37_BodyAcceptsValidated ==
    \A i \in TaskIds :
        (last_outcome[i] # Null /\ ~last_outcome[i].ok) =>
            last_outcome[i].msg \notin BodyInputChecks

\* C38: cache keys are namespaced and injective per task: every key of the
\* Redis database starts with "tasker:", the output of task X lives under
\* "tasker:" "task_output:" X, different tasks have different keys, the view
\* stored under the key of task X carries the id X, and a hit for X answers a
\* view with the id X
C38_KeysPerTask ==
    /\ \A k \in DOMAIN redis : Head(k) = "tasker:"
    /\ \A i \in TaskIds :
          /\ make_key(task_output_key(i)) = <<"tasker:", "task_output:", ToString(i)>>
          /\ \A j \in TaskIds : i # j =>
                make_key(task_output_key(i)) # make_key(task_output_key(j))
          /\ CachedView(i) # Null =>
                TaskOutputResponse_from(CachedView(i)).task_uuid = [t |-> "uuid", id |-> i]
    /\ (IsAnswer(reply) /\ reply.lookup = "hit") =>
          reply.body.task_uuid = [t |-> "uuid", id |-> reply.asked]

\* the outputs of two tasks are cached, each under its own key, and a hit for
\* the second task was just answered
C38_Witness ==
    /\ IsAnswer(reply) /\ reply.lookup = "hit" /\ reply.asked = 2
    /\ CachedView(1) # Null /\ CachedView(2) # Null
    /\ reply.body.task_uuid.id = 2

\* C39: the call a caller last made to the cache service (a get leaves the
\* database and the client as they were): a get on a connected cache that the
\* backend answered ran exactly one increment, of the hit counter when the key
\* is present (whatever its text decodes to), of the miss counter when the key
\* is absent; a get with no backend connected ran none; set, delete and exists
\* ran none, whether they succeeded, raised or found no backend
C39_HitMissAccounting ==
    IsCall(reply) =>
        LET present == redis[make_key(reply.key)] # NoEntry IN
        /\ (reply.op = "get" /\ redis_client /\ ~reply.raised /\ present) =>
              reply.cache_hits_counter = 1 /\ reply.cache_misses_counter = 0
        /\ (reply.op = "get" /\ redis_client /\ ~reply.raised /\ ~present) =>
              reply.cache_hits_counter = 0 /\ reply.cache_misses_counter = 1
        /\ (reply.op = "get" /\ ~redis_client) =>
              reply.cache_hits_counter = 0 /\ reply.cache_misses_counter = 0
        /\ reply.op \in {"set", "delete", "exists"} =>
              reply.cache_hits_counter = 0 /\ reply.cache_misses_counter = 0

\* a get on a connected cache found the key, whose text decodes to None, and
\* counted one hit and no miss
C39_Witness ==
    /\ IsCall(reply) /\ reply.op = "get" /\ redis_client /\ ~reply.raised
    /\ redis[make_key(reply.key)] # NoEntry
    /\ reply.ret = Null
    /\ reply.cache_hits_counter = 1 /\ reply.cache_misses_counter = 0

====
